---- MODULE Spec2Model ----
(***************************************************************************)
(* NuRadioReco analogToDigitalConverter: the comparator (perfect_comparator,*)
(* apply_saturation, round_to_int) and the digitiser facade                 *)
(* (analogToDigitalConverter.get_digital_trace, run).                       *)
(*                                                                          *)
(* The code computes in numpy float64 (IEEE-754 binary64, round to nearest, *)
(* ties to even).  Floats are modelled exactly: a finite double is          *)
(*   [sgn |-> -1 | 0 | 1, man |-> 53-bit significand, ex |-> exponent]      *)
(* with value sgn * man * 2^ex; the significand is a three-limb natural     *)
(* <<hi, mid, lo>> in base 2^24, because TLC's integers have 32 bits.       *)
(* Subnormals, infinities and NaN are outside the modelled range.           *)
(***************************************************************************)
EXTENDS Integers, Sequences, FiniteSets, TLC

(***************************************************************************)
(* Three-limb naturals (below 2^72).  The recursions are kept shallow       *)
(* (shifts by whole limbs and by up to 24 bits at once, division six bits   *)
(* at a time).                                                              *)
(***************************************************************************)
LimbBase == 2^24

BigZero == <<0, 0, 0>>

BigOfInt(k) == <<0, k \div LimbBase, k % LimbBase>>

BigIsZero(a) == a[1] = 0 /\ a[2] = 0 /\ a[3] = 0

BigOdd(a) == a[3] % 2 = 1

BigCmp(a, b) ==
    IF a[1] # b[1] THEN (IF a[1] < b[1] THEN -1 ELSE 1)
    ELSE IF a[2] # b[2] THEN (IF a[2] < b[2] THEN -1 ELSE 1)
    ELSE IF a[3] # b[3] THEN (IF a[3] < b[3] THEN -1 ELSE 1)
    ELSE 0

BigGe(a, b) == BigCmp(a, b) >= 0

\* a - b, for a >= b
BigSub(a, b) ==
    LET w3 == IF a[3] < b[3] THEN 1 ELSE 0
        w2 == IF a[2] - w3 < b[2] THEN 1 ELSE 0
    IN  <<a[1] - b[1] - w2,
          a[2] - b[2] - w3 + w2 * LimbBase,
          a[3] - b[3] + w3 * LimbBase>>

\* a + b
BigAdd(a, b) ==
    LET c3 == (a[3] + b[3]) \div LimbBase
        c2 == (a[2] + b[2] + c3) \div LimbBase
    IN  <<a[1] + b[1] + c2, (a[2] + b[2] + c3) % LimbBase, (a[3] + b[3]) % LimbBase>>

\* a * k + c, for 0 <= k < 128 and 0 <= c < 128
BigMulAdd(a, k, c) ==
    LET p3 == a[3] * k + c
        p2 == a[2] * k + ((a[3] * k + c) \div LimbBase)
    IN  <<a[1] * k + (p2 \div LimbBase), p2 % LimbBase, p3 % LimbBase>>

\* floor(a / 2^k), 0 <= k <= 24
BigShr(a, k) ==
    LET p == 2^k
        q == 2^(24 - k)
    IN  <<a[1] \div p,
          (a[2] \div p) + (a[1] % p) * q,
          (a[3] \div p) + (a[2] % p) * q>>

\* a * 2^k, 0 <= k <= 24, for a * 2^k < 2^72
BigShl(a, k) ==
    LET p == 2^k
        q == 2^(24 - k)
    IN  <<a[1] * p + (a[2] \div q),
          (a[2] % q) * p + (a[3] \div q),
          (a[3] % q) * p>>

\* a mod 2^k, 0 <= k <= 24
BigLow(a, k) == a[3] % (2^k)

\* number of bits of x, 0 <= x < 2^24
RECURSIVE BitLen(_)
BitLen(x) ==
    IF x >= 2^6 THEN 6 + BitLen(x \div 2^6)
    ELSE IF x >= 2^5 THEN 6 ELSE IF x >= 2^4 THEN 5 ELSE IF x >= 2^3 THEN 4
    ELSE IF x >= 2^2 THEN 3 ELSE IF x >= 2 THEN 2 ELSE x

BigBitLen(a) ==
    IF a[1] # 0 THEN 48 + BitLen(a[1])
    ELSE IF a[2] # 0 THEN 24 + BitLen(a[2])
    ELSE BitLen(a[3])

\* <<floor(m / 2^n), whether a non-zero bit was shifted out or lost holds>>
RECURSIVE ShiftRight(_, _, _)
ShiftRight(m, n, lost) ==
    IF BigIsZero(m) THEN <<m, lost>>
    ELSE IF n >= 24 THEN ShiftRight(<<0, m[1], m[2]>>, n - 24, lost \/ m[3] # 0)
    ELSE <<BigShr(m, n), lost \/ BigLow(m, n) # 0>>

RECURSIVE ShiftLeft(_, _)
ShiftLeft(m, n) ==
    IF n >= 24 THEN ShiftLeft(<<m[2], m[3], 0>>, n - 24) ELSE BigShl(m, n)

\* 2^53 as limbs: 53 = 48 + 5
Big2p53 == <<2^5, 0, 0>>
Big2p52 == <<2^4, 0, 0>>

\* the value of a, for a below 2^31
BigToInt(a) == a[2] * LimbBase + a[3]

(***************************************************************************)
(* binary64 values and rounding.                                            *)
(***************************************************************************)
FZero == [sgn |-> 0, man |-> BigZero, ex |-> 0]

\* Round the exact positive value (m + g/2 + something below iff st) * 2^e to
\* nearest, ties to even; m has 53 bits, g is the guard bit.
RoundNearestEven(s, m, g, st, e) ==
    IF g = 1 /\ (st \/ BigOdd(m))
    THEN IF BigCmp(BigMulAdd(m, 1, 1), Big2p53) = 0
         THEN [sgn |-> s, man |-> Big2p52, ex |-> e + 1]
         ELSE [sgn |-> s, man |-> BigMulAdd(m, 1, 1), ex |-> e]
    ELSE [sgn |-> s, man |-> m, ex |-> e]

\* m * 2^e with m > 0 of len bits (something non-zero below it iff st), as a double
NormalizeLen(s, m, st, e, len) ==
    IF len <= 53 THEN [sgn |-> s, man |-> ShiftLeft(m, 53 - len), ex |-> e - (53 - len)]
    ELSE RoundNearestEven(s, BigShr(m, len - 53),
                          (BigLow(m, len - 53) \div 2^(len - 54)) % 2,
                          st \/ BigLow(m, len - 54) # 0, e + (len - 53))

Normalize(s, m, st, e) == NormalizeLen(s, m, st, e, BigBitLen(m))

\* float(k) for a Python int k, |k| < 2^31: exact
FromInt(k) ==
    IF k = 0 THEN FZero
    ELSE Normalize(IF k < 0 THEN -1 ELSE 1, BigOfInt(IF k < 0 THEN -k ELSE k), FALSE, 0)

FNeg(a) == [a EXCEPT !.sgn = -a.sgn]

\* comparison of doubles (significands are normalised, so exponents order magnitudes)
MagCmp(a, b) ==
    IF a.ex # b.ex THEN (IF a.ex < b.ex THEN -1 ELSE 1) ELSE BigCmp(a.man, b.man)

FCmp(a, b) ==
    IF a.sgn # b.sgn THEN (IF a.sgn < b.sgn THEN -1 ELSE 1)
    ELSE IF a.sgn = 0 THEN 0
    ELSE a.sgn * MagCmp(a, b)

FLt(a, b) == FCmp(a, b) < 0
FGt(a, b) == FCmp(a, b) > 0
FEq(a, b) == FCmp(a, b) = 0

\* top bits of a (a below 2^60): floor(a / 2^30)
BigTop(a) == a[1] * 2^18 + (a[2] \div 2^6)

\* the quotient digit floor(rr / d) < 64 from the estimate est <= floor(rr / d)
RECURSIVE DigitFix(_, _, _, _)
DigitFix(rr, d, est, rem) ==
    IF BigGe(rem, d) THEN DigitFix(rr, d, est + 1, BigSub(rem, d)) ELSE <<est, rem>>

\* <<floor(rr / d), rr mod d>> for rr < 64 * d, 2^52 <= d < 2^53
DivDigitEst(rr, d, est) == DigitFix(rr, d, est, BigSub(rr, BigMulAdd(d, est, 0)))

DivDigit(rr, d) == DivDigitEst(rr, d, BigTop(rr) \div (BigTop(d) + 1))

\* long division in base 64: qr = <<quotient so far, remainder>>, n further digits
DivAppend(q, dg) == <<BigMulAdd(q, 64, dg[1]), dg[2]>>

RECURSIVE DivLoop(_, _, _)
DivLoop(qr, d, n) ==
    IF n = 0 THEN qr
    ELSE IF BigIsZero(qr[2]) THEN <<ShiftLeft(qr[1], 6 * n), BigZero>>   \* exact: zeros follow
    ELSE DivLoop(DivAppend(qr[1], DivDigit(BigMulAdd(qr[2], 64, 0), d)), d, n - 1)

\* a / b for doubles, b # 0: the exact quotient rounded once.  The quotient of
\* the significands is taken to 54 fractional bits (9 digits), then rounded.
FDivQR(a, b, qr) == Normalize(a.sgn * b.sgn, qr[1], ~BigIsZero(qr[2]), a.ex - b.ex - 54)

FDiv(a, b) ==
    IF a.sgn = 0 THEN FZero
    ELSE FDivQR(a, b, DivLoop(IF BigGe(a.man, b.man)
                              THEN <<BigOfInt(1), BigSub(a.man, b.man)>>
                              ELSE <<BigZero, a.man>>, b.man, 9))

\* x + y for doubles of the same sign s, x.ex >= y.ex: the exact sum rounded once
\* (x is aligned up to 17 bits to the left, y beyond that to the right)
AddAligned(s, X, Y, lost, e) == Normalize(s, BigAdd(X, Y), lost, e)

AddMag(s, x, y) ==
    IF x.ex - y.ex <= 17
    THEN AddAligned(s, ShiftLeft(x.man, x.ex - y.ex), y.man, FALSE, y.ex)
    ELSE AddAligned(s, ShiftLeft(x.man, 17),
                    ShiftRight(y.man, x.ex - y.ex - 17, FALSE)[1],
                    ShiftRight(y.man, x.ex - y.ex - 17, FALSE)[2], x.ex - 17)

\* |x| - |y| with the sign of x, x.ex >= y.ex
SubAligned(s, X, Y, lost, e) ==
    IF BigCmp(X, Y) = 0 /\ ~lost THEN FZero
    ELSE IF BigCmp(X, Y) < 0 THEN Normalize(-s, BigSub(Y, X), FALSE, e)
    ELSE Normalize(s, BigSub(BigSub(X, Y), IF lost THEN BigOfInt(1) ELSE BigZero), lost, e)

SubMag(s, x, y) ==
    IF x.ex - y.ex <= 17
    THEN SubAligned(s, ShiftLeft(x.man, x.ex - y.ex), y.man, FALSE, y.ex)
    ELSE SubAligned(s, ShiftLeft(x.man, 17),
                    ShiftRight(y.man, x.ex - y.ex - 17, FALSE)[1],
                    ShiftRight(y.man, x.ex - y.ex - 17, FALSE)[2], x.ex - 17)

\* a + b and a - b for doubles
FAdd(a, b) ==
    IF a.sgn = 0 THEN b
    ELSE IF b.sgn = 0 THEN a
    ELSE IF a.sgn = b.sgn
    THEN (IF a.ex >= b.ex THEN AddMag(a.sgn, a, b) ELSE AddMag(a.sgn, b, a))
    ELSE (IF a.ex >= b.ex THEN SubMag(a.sgn, a, b) ELSE SubMag(b.sgn, b, a))

FSub(a, b) == FAdd(a, FNeg(b))

\* a * float(k) for a double a and an int k, |k| < 128: the exact product rounded once
FMulInt(a, k) ==
    IF a.sgn = 0 \/ k = 0 THEN FZero
    ELSE Normalize(a.sgn * (IF k < 0 THEN -1 ELSE 1),
                   BigMulAdd(a.man, IF k < 0 THEN -k ELSE k, 0), FALSE, a.ex)

\* the double of an integer magnitude m (a limb natural below 2^54) with sign s
FromBig(s, m) == IF BigIsZero(m) THEN FZero ELSE Normalize(s, m, FALSE, 0)

\* np.floor / np.ceil: the result is again a double
FloorSR(a, sr) ==
    FromBig(a.sgn, IF a.sgn < 0 /\ sr[2] THEN BigMulAdd(sr[1], 1, 1) ELSE sr[1])

Floor(a) ==
    IF a.sgn = 0 \/ a.ex >= 0 THEN a ELSE FloorSR(a, ShiftRight(a.man, -a.ex, FALSE))

CeilSR(a, sr) ==
    FromBig(a.sgn, IF a.sgn > 0 /\ sr[2] THEN BigMulAdd(sr[1], 1, 1) ELSE sr[1])

Ceil(a) ==
    IF a.sgn = 0 \/ a.ex >= 0 THEN a ELSE CeilSR(a, ShiftRight(a.man, -a.ex, FALSE))

\* np.rint: round half to even, the result is again a double
RintSR(a, sr) ==
    FromBig(a.sgn, IF BigOdd(sr[1]) /\ (sr[2] \/ BigOdd(BigShr(sr[1], 1)))
                   THEN BigMulAdd(BigShr(sr[1], 1), 1, 1) ELSE BigShr(sr[1], 1))

Rint(a) ==
    IF a.sgn = 0 \/ a.ex >= 0 THEN a ELSE RintSR(a, ShiftRight(a.man, -a.ex - 1, FALSE))

\* astype(int) / int(): truncation toward zero, for |a| < 2^31
Trunc(a) ==
    IF a.sgn = 0 THEN 0
    ELSE a.sgn * BigToInt(ShiftRight(a.man, -a.ex, FALSE)[1])

\* the decimal literal n/10 (0.9, 2.4, ...): the double nearest to it
Tenths(n) == FDiv(FromInt(n), FromInt(10))

\* the decimal literal n/100 (0.15, ...)
Hundredths(n) == FDiv(FromInt(n), FromInt(100))

\* sign of a * float(k) - b * float(j) in exact arithmetic (no rounding), for
\* doubles a, b and ints |k|, |j| < 128
ExactMagCmp(a, k, b, j) ==
    IF a.ex - b.ex >= 9 THEN 1
    ELSE IF b.ex - a.ex >= 9 THEN -1
    ELSE IF a.ex >= b.ex
    THEN BigCmp(ShiftLeft(BigMulAdd(a.man, k, 0), a.ex - b.ex), BigMulAdd(b.man, j, 0))
    ELSE BigCmp(BigMulAdd(a.man, k, 0), ShiftLeft(BigMulAdd(b.man, j, 0), b.ex - a.ex))

Sgn(k) == IF k < 0 THEN -1 ELSE IF k > 0 THEN 1 ELSE 0
Abs(k) == IF k < 0 THEN -k ELSE k

ExactCmp(a, k, b, j) ==
    IF a.sgn * Sgn(k) # b.sgn * Sgn(j)
    THEN (IF a.sgn * Sgn(k) < b.sgn * Sgn(j) THEN -1 ELSE 1)
    ELSE IF a.sgn * Sgn(k) = 0 THEN 0
    ELSE a.sgn * Sgn(k) * ExactMagCmp(a, Abs(k), b, Abs(j))

(***************************************************************************)
(* The comparator: perfect_comparator, apply_saturation, round_to_int.      *)
(* A trace is a sequence of doubles; counts are Python ints.                *)
(***************************************************************************)
MaxBits == 4          \* adc_n_bits ranges over 2..MaxBits
MaxTraceLen == 2      \* traces handed to the comparator have 1..MaxTraceLen samples

Modes == {"floor", "ceiling", "round"}          \* "round" is not a mode of the code
Outputs == {"voltage", "counts", "adc"}         \* "adc" is not an output of the code

highest_count(adc_n_bits) == 2^(adc_n_bits - 1) - 1
lowest_count(adc_n_bits) == -(2^(adc_n_bits - 1))

\* lsb_voltage = adc_ref_voltage / (2 ** (adc_n_bits - 1) - 1)
lsb_voltage(adc_n_bits, adc_ref_voltage) ==
    FDiv(adc_ref_voltage, FromInt(2^(adc_n_bits - 1) - 1))

\* saturated_trace[high_saturation_mask] = highest_count
SaturateHigh(adc_counts_trace, highest) ==
    [i \in DOMAIN adc_counts_trace |->
        IF FGt(adc_counts_trace[i], highest) THEN highest ELSE adc_counts_trace[i]]

\* saturated_trace[low_saturation_mask] = lowest_count
SaturateLow(adc_counts_trace, lowest) ==
    [i \in DOMAIN adc_counts_trace |->
        IF FLt(adc_counts_trace[i], lowest) THEN lowest ELSE adc_counts_trace[i]]

\* apply_saturation without its low clip (lines 106-108 left out)
apply_saturation_no_low_clip(adc_counts_trace, adc_n_bits, adc_ref_voltage) ==
    SaturateHigh(adc_counts_trace, FromInt(highest_count(adc_n_bits)))

\* saturated_trace = adc_counts_trace[:] is a view of the numpy array: the high
\* clip writes through to adc_counts_trace, and the low mask is taken from the
\* array so clipped.
apply_saturation(adc_counts_trace, adc_n_bits, adc_ref_voltage) ==
    SaturateLow(SaturateHigh(adc_counts_trace, FromInt(highest_count(adc_n_bits))),
                FromInt(lowest_count(adc_n_bits)))

\* np.rint, then astype(int)
round_to_int(digital_trace) ==
    [i \in DOMAIN digital_trace |-> Trunc(Rint(digital_trace[i]))]

\* np.floor(trace / lsb_voltage) and np.ceil(trace / lsb_voltage)
FloorRatio(trace, lsb) == [i \in DOMAIN trace |-> Floor(FDiv(trace[i], lsb))]
CeilRatio(trace, lsb) == [i \in DOMAIN trace |-> Ceil(FDiv(trace[i], lsb))]

\* lsb_voltage * digital_trace.astype(np.float)
ToVoltage(counts, lsb) == [i \in DOMAIN counts |-> FMulInt(lsb, counts[i])]

Raised(kind) == [ok |-> FALSE, err |-> kind, val |-> <<>>]
Returned(val) == [ok |-> TRUE, err |-> "", val |-> val]

ComparatorCounts(trace, adc_n_bits, adc_ref_voltage, mode, lsb) ==
    round_to_int(apply_saturation(IF mode = "floor" THEN FloorRatio(trace, lsb)
                                  ELSE CeilRatio(trace, lsb),
                                  adc_n_bits, adc_ref_voltage))

ComparatorOutput(counts, lsb, output) ==
    IF output = "voltage" THEN Returned(ToVoltage(counts, lsb))
    ELSE IF output = "counts" THEN Returned(counts)
    ELSE Raised("ValueError")

perfect_comparator(trace, adc_n_bits, adc_ref_voltage, mode, output) ==
    IF mode \notin {"floor", "ceiling"} THEN Raised("ValueError")
    ELSE ComparatorOutput(ComparatorCounts(trace, adc_n_bits, adc_ref_voltage, mode,
                                           lsb_voltage(adc_n_bits, adc_ref_voltage)),
                          lsb_voltage(adc_n_bits, adc_ref_voltage), output)

perfect_floor_comparator(trace, adc_n_bits, adc_ref_voltage, output) ==
    perfect_comparator(trace, adc_n_bits, adc_ref_voltage, "floor", output)

perfect_ceiling_comparator(trace, adc_n_bits, adc_ref_voltage, output) ==
    perfect_comparator(trace, adc_n_bits, adc_ref_voltage, "ceiling", output)

(***************************************************************************)
(* State.  A comparator call (the q_ variables) and a digitiser call (the   *)
(* rest) are explored under separate specifications; the other part then    *)
(* stays idle.                                                              *)
(***************************************************************************)
VARIABLES
    q_pc,              \* "idle"; "call": arguments bound; "returned"; "requantized"
    q_trace,           \* trace
    q_bits,            \* adc_n_bits
    q_ref,             \* adc_ref_voltage
    q_mode,            \* mode
    q_output,          \* output
    q_result,          \* what perfect_comparator returned or raised
    q_again,           \* what it returned for its own voltage output
    pc,                \* position in get_digital_trace / run
    det,               \* the detector description: channel id -> (field name -> value)
    station,           \* the Channel objects of the station, in iteration order
    cur,               \* index in station of the channel being digitised, 0 if none
    args,              \* the arguments of get_digital_trace (and of run)
    loc,               \* the local variables of get_digital_trace
    ret                \* what get_digital_trace returned or raised

qvars == <<q_pc, q_trace, q_bits, q_ref, q_mode, q_output, q_result, q_again>>
fvars == <<pc, det, station, cur, args, loc, ret>>
vars == <<qvars, fvars>>

\* reference voltages 0.3 V, 0.9 V, 1.0 V
RefVoltages == {Tenths(3), Tenths(9), Tenths(10)}

\* samples: the reference voltage, ten times it either way, and 0.15 V
Samples(ref) == {ref, FMulInt(ref, 10), FMulInt(ref, -10), Hundredths(15)}

RECURSIVE SeqsUpTo(_, _)
SeqsUpTo(S, n) ==
    IF n = 0 THEN {<<>>}
    ELSE SeqsUpTo(S, n - 1) \cup
         {Append(t, x) : t \in {u \in SeqsUpTo(S, n - 1) : Len(u) = n - 1}, x \in S}

NoResult == [ok |-> FALSE, err |-> "none", val |-> <<>>]

None == [none |-> TRUE]        \* Python's None
Unset == [unset |-> TRUE]      \* a local not yet assigned, a result not yet produced
PyInt(k) == [int |-> k]        \* a Python int where None may stand instead

\* no digitiser call in progress
FacadeIdle ==
    /\ pc = "idle"
    /\ det = <<>>
    /\ station = <<>>
    /\ cur = 0
    /\ args = Unset
    /\ loc = Unset
    /\ ret = Unset

\* no comparator call in progress
ComparatorIdle ==
    /\ q_pc = "idle"
    /\ q_trace = <<>>
    /\ q_bits = 0
    /\ q_ref = FZero
    /\ q_mode = ""
    /\ q_output = ""
    /\ q_result = NoResult
    /\ q_again = NoResult

QInit ==
    /\ q_pc = "call"
    /\ q_bits \in 2..MaxBits
    /\ q_ref \in RefVoltages
    /\ q_trace \in SeqsUpTo(Samples(q_ref), MaxTraceLen) \ {<<>>}
    /\ q_mode \in Modes
    /\ q_output \in Outputs
    /\ q_result = NoResult
    /\ q_again = NoResult
    /\ FacadeIdle

\* perfect_comparator(trace, adc_n_bits, adc_ref_voltage, mode, output)
Quantize ==
    /\ q_pc = "call"
    /\ q_result' = perfect_comparator(q_trace, q_bits, q_ref, q_mode, q_output)
    /\ q_pc' = "returned"
    /\ UNCHANGED <<q_trace, q_bits, q_ref, q_mode, q_output, q_again, fvars>>

\* the comparator applied to the voltage trace it returned, same arguments
Requantize ==
    /\ q_pc = "returned"
    /\ q_result.ok
    /\ q_output = "voltage"
    /\ q_again' = perfect_comparator(q_result.val, q_bits, q_ref, q_mode, "voltage")
    /\ q_pc' = "requantized"
    /\ UNCHANGED <<q_trace, q_bits, q_ref, q_mode, q_output, q_result, fvars>>

QNext == Quantize \/ Requantize

SpecComparator == QInit /\ [][QNext]_vars

(***************************************************************************)
(* C1: every count perfect_comparator returns with output='counts' is an    *)
(* integer in [-2^(bit_depth-1), 2^(bit_depth-1)-1], whatever the samples;  *)
(* with output='voltage' every value is one of those counts times lsb.      *)
(***************************************************************************)
CountRange(bits) == lowest_count(bits)..highest_count(bits)

ExactFloorCount(v, bits, ref) ==
    IF ExactCmp(v, highest_count(bits), ref, highest_count(bits)) >= 0
    THEN highest_count(bits)
    ELSE IF ExactCmp(v, highest_count(bits), ref, lowest_count(bits)) < 0
    THEN lowest_count(bits)
    ELSE CHOOSE c \in lowest_count(bits)..(highest_count(bits) - 1) :
            /\ ExactCmp(v, highest_count(bits), ref, c) >= 0
            /\ ExactCmp(v, highest_count(bits), ref, c + 1) < 0

ExactCeilCount(v, bits, ref) ==
    IF ExactCmp(v, highest_count(bits), ref, highest_count(bits)) >= 0
    THEN highest_count(bits)
    ELSE IF ExactCmp(v, highest_count(bits), ref, lowest_count(bits)) <= 0
    THEN lowest_count(bits)
    ELSE CHOOSE c \in (lowest_count(bits) + 1)..highest_count(bits) :
            /\ ExactCmp(v, highest_count(bits), ref, c - 1) > 0
            /\ ExactCmp(v, highest_count(bits), ref, c) <= 0

C2_CountIsClampedFloorOrCeil ==
    (q_pc = "returned" /\ q_result.ok /\ q_output = "counts") =>
        \A i \in DOMAIN q_trace :
            /\ q_mode = "floor" => q_result.val[i] = ExactFloorCount(q_trace[i], q_bits, q_ref)
            /\ q_mode = "ceiling" => q_result.val[i] = ExactCeilCount(q_trace[i], q_bits, q_ref)
            /\ q_trace[i] \in {q_ref, FMulInt(q_ref, 10)} =>
                  q_result.val[i] = highest_count(q_bits)

(***************************************************************************)
(* C3: quantization is idempotent: the comparator applied with              *)
(* output='voltage' to the voltage trace it returned for the same           *)
(* bit_depth, reference_voltage and mode returns the identical trace.       *)
(***************************************************************************)
C3_QuantizationIdempotent ==
    q_pc = "requantized" => (q_again.ok /\ q_again.val = q_result.val)

(***************************************************************************)
(* The digitiser: analogToDigitalConverter.get_digital_trace and run.       *)
(*                                                                          *)
(* Sample values pass through scipy and NuRadioReco signal processing       *)
(* (butterworth_filter_trace, delay_trace, resample, interp1d,              *)
(* upsampling_fir); a trace is carried as its number of samples and the     *)
(* sequence of operations applied to the channel's samples, each with the   *)
(* arguments it was given.  Lengths, rates and time grids are computed as   *)
(* the code computes them, in float64.                                      *)
(***************************************************************************)
MinSamples == 14      \* a channel's trace has MinSamples..MaxSamples samples
MaxSamples == 15
MaxChannels == 2      \* a station given to run has 1..MaxChannels channels

\* NuRadioReco.utilities.units: GHz, ns and V are base units (1), MHz is 1e-3
units_GHz == 1
units_ns == 1
units_V == 1

\* x * units.GHz, x * units.ns, x * units.V
TimesUnit(x, unit) == FMulInt(x, unit)

\* the default bandwidth_edge, 20 * units.MHz: the double 0.02
default_bandwidth_edge == FDiv(FromInt(20), FromInt(1000))

\* self._adc_types and self._mandatory_fields, set by __init__
adc_types == {"perfect_floor_comparator", "perfect_ceiling_comparator"}
mandatory_fields == <<"adc_nbits", "adc_reference_voltage", "adc_sampling_frequency">>

\* framework.channel.Channel
Trace(n, hist) == [n |-> n, hist |-> hist]

Channel(id, n, sampling_rate, trace_start_time) ==
    [id |-> id, trace |-> Trace(n, <<[op |-> "analog"]>>),
     sampling_rate |-> sampling_rate, trace_start_time |-> trace_start_time]

\* a uniform time array: element i (from 0) is i / rate + start + shift
Grid(n, rate, start, shift) == [n |-> n, rate |-> rate, start |-> start, shift |-> shift]

GridAt(g, i) == FAdd(FAdd(FDiv(FromInt(i), g.rate), g.start), g.shift)

\* channel.get_times(): sample i is at trace_start_time + i / sampling_rate
get_times(ch) == Grid(ch.trace.n, ch.sampling_rate, ch.trace_start_time, FZero)

\* channel.set_trace(trace, sampling_rate)
set_trace(ch, trace, sampling_rate) ==
    [ch EXCEPT !.trace = trace, !.sampling_rate = sampling_rate]

\* channel.get_id() of the k-th channel of a station
ChannelId(k) == 2 * k + 1

\* diode.tunnel_diode(channel): the enveloped trace, as long as the channel's
tunnel_diode(ch) == Trace(ch.trace.n, Append(ch.trace.hist, [op |-> "tunnel_diode"]))

(***************************************************************************)
(* Inputs: detector descriptions, channels and call arguments.              *)
(***************************************************************************)
\* the mandatory fields of one ADC role; prefix is "" or "trigger_"
Role(prefix, nbits, ref, rate) ==
    (prefix \o "adc_nbits") :> nbits @@
    (prefix \o "adc_reference_voltage") :> ref @@
    (prefix \o "adc_sampling_frequency") :> rate

\* its optional fields: left out, present with value None, or set
Optional(prefix, profile, delay, ntaps) ==
    IF profile = "absent" THEN <<>>
    ELSE (prefix \o "adc_time_delay") :> (IF profile = "none" THEN None ELSE delay) @@
         (prefix \o "adc_ntaps") :> (IF profile = "none" THEN None ELSE PyInt(ntaps))

\* a description with both roles; rates = <<primary rate, trigger rate>> in GHz
FullDetChannel(rates, profile) ==
    Role("", 8, FromInt(1), rates[1]) @@ Optional("", profile, Tenths(5), 7) @@
    Role("trigger_", 4, Tenths(9), rates[2]) @@ Optional("trigger_", profile, Tenths(15), 5)

Without(d, names) == [f \in DOMAIN d \ names |-> d[f]]

\* complete descriptions; <<primary, trigger>> ADC sampling frequencies
\* 2.0/2.5, 2.4/12.0 and 5.0/2.4 GHz
DetChannels ==
    {FullDetChannel(<<FromInt(2), Tenths(25)>>, "set"),
     FullDetChannel(<<Tenths(24), FromInt(12)>>, "none"),
     FullDetChannel(<<FromInt(5), Tenths(24)>>, "absent")}

PrimaryFields == {mandatory_fields[i] : i \in DOMAIN mandatory_fields}
TriggerFields == {"trigger_" \o mandatory_fields[i] : i \in DOMAIN mandatory_fields}

\* descriptions lacking one mandatory field, or all those of one role; with the
\* fields present both ADCs would be faster than any channel
IncompleteDetChannels ==
    {Without(FullDetChannel(<<FromInt(12), FromInt(12)>>, "set"), {f}) :
        f \in PrimaryFields \cup TriggerFields}
    \cup {Without(FullDetChannel(<<FromInt(12), FromInt(12)>>, "set"), PrimaryFields),
          Without(FullDetChannel(<<FromInt(12), FromInt(12)>>, "set"), TriggerFields)}

\* channels sampled at 2.5, 5 and 10 GHz, starting at 0 ns or 100 ns
ChannelKinds == {<<Tenths(25), FromInt(0)>>, <<FromInt(5), FromInt(100)>>, <<FromInt(10), FromInt(0)>>}

Channels(k) ==
    {Channel(ChannelId(k), n, c[1], c[2]) : n \in MinSamples..MaxSamples, c \in ChannelKinds}

\* adc_type, diode, return_sampling_frequency, output, bandwidth_edge
Styles ==
    {[adc_type |-> "perfect_floor_comparator", diode |-> None,
      return_sampling_frequency |-> TRUE, output |-> "voltage",
      bandwidth_edge |-> default_bandwidth_edge],
     [adc_type |-> "perfect_ceiling_comparator", diode |-> [diode |-> "diodeSimulator"],
      return_sampling_frequency |-> FALSE, output |-> "counts",
      bandwidth_edge |-> FZero]}

NyquistZones == {None, PyInt(0), PyInt(1), PyInt(2)}
UpsamplingFactors == {None, PyInt(1), PyInt(2), PyInt(3)}

Args(style, trigger_adc, random_clock_offset, upsampling_factor, nyquist_zone, run) ==
    [trigger_adc |-> trigger_adc,
     random_clock_offset |-> random_clock_offset,
     adc_type |-> style.adc_type,
     diode |-> style.diode,
     return_sampling_frequency |-> style.return_sampling_frequency,
     output |-> style.output,
     upsampling_factor |-> upsampling_factor,
     nyquist_zone |-> nyquist_zone,
     bandwidth_edge |-> style.bandwidth_edge,
     run |-> run]

\* the locals of get_digital_trace, none assigned
LocalNames ==
    {"channel_id", "det_channel", "times", "trace", "input_sampling_frequency",
     "adc_time_delay_label", "adc_n_bits_label", "adc_ref_voltage_label",
     "adc_sampling_frequency_label", "adc_ntaps_label", "adc_time_delay", "adc_n_bits",
     "adc_ref_voltage", "adc_sampling_frequency", "clock_offset", "nyquist_zone",
     "passband", "filtered_trace", "delayed_samples", "delayed_trace",
     "delayed_start_time", "delayed_times", "upsampling_frequency", "upsampling_nsamples",
     "perfectly_upsampled_trace", "perfectly_upsampled_times", "new_n_samples",
     "resampled_times", "resampled_trace", "digital_trace", "ntaps", "upsampling_factor",
     "upsampled_trace"}

NoLocals == [v \in LocalNames |-> Unset]

\* raise ValueError(error_msg): the message as its format string and arguments
ValueError(msg) == [ok |-> FALSE, error |-> "ValueError", msg |-> msg]

\* the construction of the module: no call made yet
Init == ComparatorIdle /\ FacadeIdle

(***************************************************************************)
(* get_digital_trace, block by block.                                       *)
(***************************************************************************)
\* the Channel object being digitised
Chan == station[cur]

\* a call of get_digital_trace(station, det, channel, ...) from outside
GetDigitalTraceCall ==
    /\ pc = "idle"
    /\ \/ \E d \in DetChannels, ch \in Channels(1), style \in Styles,
             trigger_adc \in BOOLEAN, random_clock_offset \in BOOLEAN,
             upsampling_factor \in UpsamplingFactors, nyquist_zone \in NyquistZones :
             /\ det' = (ChannelId(1) :> d)
             /\ station' = <<ch>>
             /\ args' = Args(style, trigger_adc, random_clock_offset, upsampling_factor,
                             nyquist_zone, FALSE)
       \/ \E d \in IncompleteDetChannels, style \in Styles, trigger_adc \in BOOLEAN,
             nyquist_zone \in {None, PyInt(0)} :
             /\ det' = (ChannelId(1) :> d)
             /\ station' = <<Channel(ChannelId(1), MinSamples, FromInt(5), FromInt(0))>>
             /\ args' = Args(style, trigger_adc, FALSE, None, nyquist_zone, FALSE)
    /\ cur' = 1
    /\ loc' = NoLocals
    /\ ret' = Unset
    /\ pc' = "check_fields"
    /\ UNCHANGED qvars

\* a check that looks for the primary name whatever the role
field_check_unprefixed(field, trigger_adc) == field

\* field_check = 'trigger_' + field if trigger_adc else field
field_check(field, trigger_adc) == IF trigger_adc THEN "trigger_" \o field ELSE field

\* the positions in _mandatory_fields whose field_check is not in det_channel
MissingFields(det_channel, trigger_adc) ==
    {i \in DOMAIN mandatory_fields :
        field_check(mandatory_fields[i], trigger_adc) \notin DOMAIN det_channel}

FirstOf(S) == CHOOSE i \in S : \A j \in S : i <= j

\* lines 237-250: det.get_channel and the loop over the mandatory fields
CheckFields ==
    /\ pc = "check_fields"
    /\ loc' = [loc EXCEPT !.channel_id = Chan.id, !.det_channel = det[Chan.id]]
    /\ IF MissingFields(det[Chan.id], args.trigger_adc) # {}
       THEN /\ ret' = ValueError(<<"The field {} is not present in channel {}. Please specify it on your detector file",
                                  field_check(mandatory_fields[FirstOf(MissingFields(det[Chan.id], args.trigger_adc))],
                                              args.trigger_adc),
                                  Chan.id>>)
            /\ pc' = "raised"
       ELSE /\ ret' = ret
            /\ pc' = "read_channel"
    /\ UNCHANGED <<qvars, det, station, cur, args>>

\* lines 252-257: the channel's times, trace and sampling rate; the diode
ReadChannel ==
    /\ pc = "read_channel"
    /\ loc' = [loc EXCEPT !.times = get_times(Chan),
                          !.trace = IF args.diode # None THEN tunnel_diode(Chan) ELSE Chan.trace,
                          !.input_sampling_frequency = Chan.sampling_rate]
    /\ pc' = "resolve_config"
    /\ UNCHANGED <<qvars, det, station, cur, args, ret>>

\* lines 259-270: the labels of the selected role
Label(trigger_adc, name) == IF trigger_adc THEN "trigger_" \o name ELSE name

\* lines 272-276: adc_time_delay, 0 unless the field is present and not None
ConfiguredTimeDelay(det_channel, adc_time_delay_label) ==
    IF adc_time_delay_label \in DOMAIN det_channel
    THEN IF det_channel[adc_time_delay_label] # None
         THEN TimesUnit(det_channel[adc_time_delay_label], units_ns)
         ELSE FZero
    ELSE FZero

\* lines 259-280
ResolveConfig ==
    /\ pc = "resolve_config"
    /\ loc' = [loc EXCEPT
          !.adc_time_delay_label = Label(args.trigger_adc, "adc_time_delay"),
          !.adc_n_bits_label = Label(args.trigger_adc, "adc_nbits"),
          !.adc_ref_voltage_label = Label(args.trigger_adc, "adc_reference_voltage"),
          !.adc_sampling_frequency_label = Label(args.trigger_adc, "adc_sampling_frequency"),
          !.adc_ntaps_label = Label(args.trigger_adc, "adc_ntaps"),
          !.adc_time_delay =
              ConfiguredTimeDelay(loc.det_channel, Label(args.trigger_adc, "adc_time_delay")),
          !.adc_n_bits = loc.det_channel[Label(args.trigger_adc, "adc_nbits")],
          !.adc_ref_voltage =
              TimesUnit(loc.det_channel[Label(args.trigger_adc, "adc_reference_voltage")], units_V),
          !.adc_sampling_frequency =
              TimesUnit(loc.det_channel[Label(args.trigger_adc, "adc_sampling_frequency")], units_GHz)]
    /\ pc' = "clock_offset"
    /\ UNCHANGED <<qvars, det, station, cur, args, ret>>

\* values np.random.uniform(0, 1) may return: 0.0 and 0.5
ClockOffsets == {FZero, Tenths(5)}

\* lines 282-284: the random clock offset
ClockOffset ==
    /\ pc = "clock_offset"
    /\ IF args.random_clock_offset
       THEN \E clock_offset \in ClockOffsets :
               loc' = [loc EXCEPT
                   !.clock_offset = clock_offset,
                   !.adc_time_delay = FAdd(@, FDiv(clock_offset, loc.adc_sampling_frequency))]
       ELSE loc' = loc
    /\ pc' = "check_rate"
    /\ UNCHANGED <<qvars, det, station, cur, args, ret>>

\* a check that lets the equal rate fail too
adc_too_fast_or_equal(adc_sampling_frequency, sampling_rate) ==
    ~FLt(adc_sampling_frequency, sampling_rate)

\* line 286: adc_sampling_frequency > channel.get_sampling_rate()
adc_too_fast(adc_sampling_frequency, sampling_rate) ==
    FGt(adc_sampling_frequency, sampling_rate)

\* lines 286-290: the ADC cannot sample faster than the channel
CheckRate ==
    /\ pc = "check_rate"
    /\ IF adc_too_fast(loc.adc_sampling_frequency, Chan.sampling_rate)
       THEN /\ ret' = ValueError(<<"The ADC sampling rate is greater than the channel {} sampling rate. Please change the ADC sampling rate.",
                                  Chan.id>>)
            /\ pc' = "raised"
       ELSE /\ ret' = ret
            /\ pc' = "nyquist_zone"
    /\ UNCHANGED <<qvars, det, station, cur, args, loc>>

\* a passband whose upper edge is not pulled in by bandwidth_edge
passband_wide(nyquist_zone, adc_sampling_frequency, bandwidth_edge) ==
    <<FAdd(FDiv(FMulInt(adc_sampling_frequency, nyquist_zone - 1), FromInt(2)), bandwidth_edge),
      FDiv(FMulInt(adc_sampling_frequency, nyquist_zone), FromInt(2))>>

\* passband = ((nyquist_zone - 1) * adc_sampling_frequency / 2 + bandwidth_edge,
\*             nyquist_zone * adc_sampling_frequency / 2 - bandwidth_edge)
passband(nyquist_zone, adc_sampling_frequency, bandwidth_edge) ==
    <<FAdd(FDiv(FMulInt(adc_sampling_frequency, nyquist_zone - 1), FromInt(2)), bandwidth_edge),
      FSub(FDiv(FMulInt(adc_sampling_frequency, nyquist_zone), FromInt(2)), bandwidth_edge)>>

\* butterworth_filter_trace(trace, sampling_frequency, passband): as many samples
butterworth_filter_trace(trace, sampling_frequency, band) ==
    Trace(trace.n, Append(trace.hist, [op |-> "butterworth_filter_trace",
                                       sampling_frequency |-> sampling_frequency,
                                       passband |-> band]))

\* lines 292-315: the Nyquist zone.  nyquist_zone is None or an int, so the
\* conversion of lines 298-303 leaves it as it is.
NyquistZone ==
    /\ pc = "nyquist_zone"
    /\ IF args.nyquist_zone # None
       THEN IF args.nyquist_zone.int < 1
            THEN /\ ret' = ValueError(<<"Nyquist zone is less than one. Exiting.">>)
                 /\ pc' = "raised"
                 /\ loc' = loc
            ELSE IF FGt(passband(args.nyquist_zone.int, loc.adc_sampling_frequency,
                                 args.bandwidth_edge)[2],
                        FDiv(loc.input_sampling_frequency, FromInt(2)))
            THEN /\ ret' = ValueError(<<"Please use another simulation with a larger sampling frequency">>)
                 /\ pc' = "raised"
                 /\ loc' = [loc EXCEPT
                        !.nyquist_zone = args.nyquist_zone,
                        !.passband = passband(args.nyquist_zone.int, loc.adc_sampling_frequency,
                                              args.bandwidth_edge)]
            ELSE /\ ret' = ret
                 /\ pc' = "delay_trace"
                 /\ loc' = [loc EXCEPT
                        !.nyquist_zone = args.nyquist_zone,
                        !.passband = passband(args.nyquist_zone.int, loc.adc_sampling_frequency,
                                              args.bandwidth_edge),
                        !.filtered_trace =
                            butterworth_filter_trace(loc.trace, loc.input_sampling_frequency,
                                passband(args.nyquist_zone.int, loc.adc_sampling_frequency,
                                         args.bandwidth_edge))]
       ELSE /\ ret' = ret
            /\ pc' = "delay_trace"
            /\ loc' = [loc EXCEPT !.nyquist_zone = None, !.filtered_trace = loc.trace]
    /\ UNCHANGED <<qvars, det, station, cur, args>>

\* delayed_samples = len(trace) - np.int(np.round(input / adc)) - 1
delayed_samples(len_trace, input_sampling_frequency, adc_sampling_frequency) ==
    len_trace - Trunc(Rint(FDiv(input_sampling_frequency, adc_sampling_frequency))) - 1

\* delay_trace(trace, sampling_frequency, time_delay, delayed_samples): the
\* delayed trace, of exactly delayed_samples samples
delay_trace(trace, sampling_frequency, time_delay, n_samples) ==
    Trace(n_samples, Append(trace.hist, [op |-> "delay_trace",
                                         sampling_frequency |-> sampling_frequency,
                                         time_delay |-> time_delay,
                                         delayed_samples |-> n_samples]))

Min(a, b) == IF a < b THEN a ELSE b

\* lines 317-323: the delay, and the times of the delayed samples
DelayTrace ==
    /\ pc = "delay_trace"
    /\ loc' = [loc EXCEPT
          !.delayed_samples = delayed_samples(loc.trace.n, loc.input_sampling_frequency,
                                              loc.adc_sampling_frequency),
          !.delayed_trace =
              delay_trace(loc.filtered_trace, loc.input_sampling_frequency, loc.adc_time_delay,
                          delayed_samples(loc.trace.n, loc.input_sampling_frequency,
                                          loc.adc_sampling_frequency)),
          !.delayed_start_time = FDiv(FromInt(1), loc.adc_sampling_frequency),
          !.delayed_times =
              Grid(Min(loc.times.n, delayed_samples(loc.trace.n, loc.input_sampling_frequency,
                                                    loc.adc_sampling_frequency)),
                   loc.times.rate, loc.times.start,
                   FDiv(FromInt(1), loc.adc_sampling_frequency))]
    /\ pc' = "upsample"
    /\ UNCHANGED <<qvars, det, station, cur, args, ret>>

\* upsampling_frequency = 5 * units.GHz
upsampling_frequency == FromInt(5 * units_GHz)

\* upsampling_nsamples = int(upsampling_frequency * len(delayed_trace) / input)
upsampling_nsamples(len_delayed, input_sampling_frequency) ==
    Trunc(FDiv(FMulInt(upsampling_frequency, len_delayed), input_sampling_frequency))

\* scipy.signal.resample(x, num): num samples
resample(trace, num) == Trace(num, Append(trace.hist, [op |-> "resample", num |-> num]))

\* lines 328-341: up to 5 GHz when the input is sampled more slowly
Upsample ==
    /\ pc = "upsample"
    /\ IF FGt(upsampling_frequency, loc.input_sampling_frequency)
       THEN loc' = [loc EXCEPT
                !.upsampling_frequency = upsampling_frequency,
                !.upsampling_nsamples =
                    upsampling_nsamples(loc.delayed_trace.n, loc.input_sampling_frequency),
                !.perfectly_upsampled_trace =
                    resample(loc.delayed_trace,
                             upsampling_nsamples(loc.delayed_trace.n, loc.input_sampling_frequency)),
                !.perfectly_upsampled_times =
                    Grid(upsampling_nsamples(loc.delayed_trace.n, loc.input_sampling_frequency),
                         upsampling_frequency, GridAt(loc.delayed_times, 0), FZero)]
       ELSE loc' = [loc EXCEPT
                !.upsampling_frequency = upsampling_frequency,
                !.perfectly_upsampled_trace = loc.delayed_trace,
                !.perfectly_upsampled_times = loc.delayed_times]
    /\ pc' = "downsample"
    /\ UNCHANGED <<qvars, det, station, cur, args, ret>>

\* interp1d(x, y, kind='linear', fill_value=(y[0], y[-1]), bounds_error=False)
interp1d(x, y) == [x |-> x, y |-> y, kind |-> "linear", fill_value |-> <<"y[0]", "y[-1]">>]

\* the interpolant evaluated at num instants: num samples
Interpolate(f, num) == Trace(num, Append(f.y.hist, [op |-> "interp1d", num |-> num]))

\* the product rounded to the nearest integer instead of truncated
new_n_samples_rounded(adc_sampling_frequency, len_delayed) ==
    Trunc(Rint(FMulInt(FDiv(adc_sampling_frequency, upsampling_frequency), len_delayed)))

\* new_n_samples = int((adc_sampling_frequency / upsampling_frequency) * len(delayed_trace))
new_n_samples(adc_sampling_frequency, len_delayed) ==
    Trunc(FMulInt(FDiv(adc_sampling_frequency, upsampling_frequency), len_delayed))

\* np.linspace(0, stop, num): step = stop / (num - 1), sample i is i * step,
\* and the last sample is set to stop
LinspaceStep(stop, num, step) ==
    [i \in 1..num |-> IF i = num THEN stop ELSE FMulInt(step, i - 1)]

linspace(stop, num) ==
    IF num <= 0 THEN <<>>
    ELSE IF num = 1 THEN <<FZero>>
    ELSE LinspaceStep(stop, num, FDiv(stop, FromInt(num - 1)))

\* resampled_times = np.linspace(0, new_n_samples / adc_sampling_frequency, new_n_samples)
\* resampled_times += channel.get_trace_start_time()
AddToAll(ts, t) == [i \in DOMAIN ts |-> FAdd(ts[i], t)]

resampled_times(n_samples, adc_sampling_frequency, trace_start_time) ==
    AddToAll(linspace(FDiv(FromInt(n_samples), adc_sampling_frequency), n_samples),
             trace_start_time)

\* lines 343-353: linear interpolation at the instants of the ADC samples
Downsample ==
    /\ pc = "downsample"
    /\ loc' = [loc EXCEPT
          !.new_n_samples = new_n_samples(loc.adc_sampling_frequency, loc.delayed_trace.n),
          !.resampled_times =
              resampled_times(new_n_samples(loc.adc_sampling_frequency, loc.delayed_trace.n),
                              loc.adc_sampling_frequency, Chan.trace_start_time),
          !.resampled_trace =
              Interpolate(interp1d(loc.perfectly_upsampled_times, loc.perfectly_upsampled_trace),
                          new_n_samples(loc.adc_sampling_frequency, loc.delayed_trace.n))]
    /\ pc' = "digitise"
    /\ UNCHANGED <<qvars, det, station, cur, args, ret>>

\* self._adc_types[adc_type](resampled_trace, adc_n_bits, adc_ref_voltage, output):
\* perfect_comparator in mode 'floor' or 'ceiling', one output sample per sample
Digitised(trace, adc_type, adc_n_bits, adc_ref_voltage, output) ==
    Trace(trace.n, Append(trace.hist,
        [op |-> "perfect_comparator",
         mode |-> IF adc_type = "perfect_floor_comparator" THEN "floor" ELSE "ceiling",
         adc_n_bits |-> adc_n_bits, adc_ref_voltage |-> adc_ref_voltage, output |-> output]))

\* lines 355-357: digitisation
Digitise ==
    /\ pc = "digitise"
    /\ args.adc_type \in adc_types
    /\ loc' = [loc EXCEPT
          !.digital_trace = Digitised(loc.resampled_trace, args.adc_type, loc.adc_n_bits,
                                      loc.adc_ref_voltage, args.output)]
    /\ pc' = "fir_upsample"
    /\ UNCHANGED <<qvars, det, station, cur, args, ret>>

\* lines 362-368: ntaps from the detector description, else upsampling_factor * 4
fir_ntaps(det_channel, adc_ntaps_label, upsampling_factor) ==
    IF adc_ntaps_label \in DOMAIN det_channel
    THEN IF det_channel[adc_ntaps_label] # None
         THEN det_channel[adc_ntaps_label].int
         ELSE upsampling_factor * 4
    ELSE upsampling_factor * 4

\* a filter applied from factor 1 on
fir_applies_from_one(upsampling_factor) == upsampling_factor >= 1

\* line 370: if (upsampling_factor >= 2)
fir_applies(upsampling_factor) == upsampling_factor >= 2

\* upsampling_fir(trace, original_sampling_frequency, int_factor, ntaps): the
\* trace at int_factor times the rate, int_factor times as many samples
upsampling_fir(trace, original_sampling_frequency, int_factor, ntaps) ==
    Trace(trace.n * int_factor,
          Append(trace.hist, [op |-> "upsampling_fir",
                              original_sampling_frequency |-> original_sampling_frequency,
                              int_factor |-> int_factor, ntaps |-> ntaps]))

\* lines 359-377: upsampling with an FIR filter
FirUpsample ==
    /\ pc = "fir_upsample"
    /\ IF args.upsampling_factor # None
       THEN IF fir_applies(args.upsampling_factor.int)
            THEN loc' = [loc EXCEPT
                     !.ntaps = fir_ntaps(loc.det_channel, loc.adc_ntaps_label,
                                         args.upsampling_factor.int),
                     !.upsampling_factor = args.upsampling_factor.int,
                     !.upsampled_trace =
                         upsampling_fir(loc.digital_trace, loc.adc_sampling_frequency,
                                        args.upsampling_factor.int,
                                        fir_ntaps(loc.det_channel, loc.adc_ntaps_label,
                                                  args.upsampling_factor.int)),
                     !.adc_sampling_frequency = FMulInt(@, args.upsampling_factor.int),
                     !.digital_trace =
                         upsampling_fir(loc.digital_trace, loc.adc_sampling_frequency,
                                        args.upsampling_factor.int,
                                        fir_ntaps(loc.det_channel, loc.adc_ntaps_label,
                                                  args.upsampling_factor.int))]
            ELSE loc' = [loc EXCEPT
                     !.ntaps = fir_ntaps(loc.det_channel, loc.adc_ntaps_label,
                                         args.upsampling_factor.int),
                     !.upsampling_factor = args.upsampling_factor.int]
       ELSE loc' = [loc EXCEPT !.upsampling_factor = None]
    /\ pc' = "even_length"
    /\ UNCHANGED <<qvars, det, station, cur, args, ret>>

\* no trimming
even_length_untrimmed(digital_trace) == digital_trace

\* lines 379-381: an odd number of samples loses the last one
even_length(digital_trace) ==
    IF digital_trace.n % 2 = 1
    THEN Trace(digital_trace.n - 1, Append(digital_trace.hist, [op |-> "[:-1]"]))
    ELSE digital_trace

\* lines 383-386: the trace, with the sampling frequency if asked for
Result(digital_trace, adc_sampling_frequency, return_sampling_frequency) ==
    [ok |-> TRUE, digital_trace |-> digital_trace,
     adc_sampling_frequency |->
         IF return_sampling_frequency THEN adc_sampling_frequency ELSE Unset]

\* lines 379-386
EvenReturn ==
    /\ pc = "even_length"
    /\ loc' = [loc EXCEPT !.digital_trace = even_length(loc.digital_trace)]
    /\ ret' = Result(even_length(loc.digital_trace), loc.adc_sampling_frequency,
                     args.return_sampling_frequency)
    /\ pc' = "returned"
    /\ UNCHANGED <<qvars, det, station, cur, args>>

(***************************************************************************)
(* run(evt, station, det, random_clock_offset, adc_type, output,            *)
(* upsampling_factor).                                                      *)
(***************************************************************************)
\* the arguments run passes on: the primary role, no diode, no Nyquist zone,
\* the default bandwidth_edge, return_sampling_frequency=True
RunStyle(adc_type, output) ==
    [adc_type |-> adc_type, diode |-> None, return_sampling_frequency |-> TRUE,
     output |-> output, bandwidth_edge |-> default_bandwidth_edge]

\* <<adc_type, output, random_clock_offset>> given to run
RunOptions ==
    {<<"perfect_floor_comparator", "voltage", FALSE>>,
     <<"perfect_ceiling_comparator", "counts", TRUE>>}

\* descriptions of the channels of a station given to run
RunDetChannels ==
    {FullDetChannel(<<FromInt(2), Tenths(25)>>, "absent"),
     FullDetChannel(<<Tenths(24), FromInt(12)>>, "set"),
     Without(FullDetChannel(<<FromInt(2), Tenths(25)>>, "set"), {"adc_nbits"})}

\* the k-th channel of such a station: sampled at 2.5 GHz, starting at 0 ns
RunChannel(k) == Channel(ChannelId(k), MinSamples + (k % 2), Tenths(25), FromInt(0))

\* a call of run
RunCall ==
    /\ pc = "idle"
    /\ \E k \in 1..MaxChannels :
          /\ station' = [j \in 1..k |-> RunChannel(j)]
          /\ det' \in [{ChannelId(j) : j \in 1..k} -> RunDetChannels]
    /\ \E o \in RunOptions, upsampling_factor \in {PyInt(1), PyInt(2)} :
          args' = Args(RunStyle(o[1], o[2]), FALSE, o[3], upsampling_factor, None, TRUE)
    /\ cur' = 0
    /\ loc' = Unset
    /\ ret' = Unset
    /\ pc' = "iter_channels"
    /\ UNCHANGED qvars

\* line 420: the next channel of the station, or the end of the loop; lines 422-427
RunLoop ==
    /\ pc = "iter_channels"
    /\ IF cur < Len(station)
       THEN /\ cur' = cur + 1
            /\ loc' = NoLocals
            /\ ret' = Unset
            /\ pc' = "check_fields"
       ELSE /\ pc' = "run_done"
            /\ UNCHANGED <<cur, loc, ret>>
    /\ UNCHANGED <<qvars, det, station, args>>

\* line 429: channel.set_trace(digital_trace, adc_sampling_frequency)
RunSetTrace ==
    /\ pc = "returned"
    /\ args.run
    /\ station' = [station EXCEPT
          ![cur] = set_trace(@, ret.digital_trace, ret.adc_sampling_frequency)]
    /\ pc' = "iter_channels"
    /\ UNCHANGED <<qvars, det, cur, args, loc, ret>>

Next ==
    \/ GetDigitalTraceCall
    \/ CheckFields
    \/ ReadChannel
    \/ ResolveConfig
    \/ ClockOffset
    \/ CheckRate
    \/ NyquistZone
    \/ DelayTrace
    \/ Upsample
    \/ Downsample
    \/ Digitise
    \/ FirUpsample
    \/ EvenReturn
    \/ RunCall
    \/ RunLoop
    \/ RunSetTrace

Spec == Init /\ [][Next]_vars

(***************************************************************************)
(* Shorthands for the properties of get_digital_trace.                      *)
(***************************************************************************)
FieldMsg == "The field {} is not present in channel {}. Please specify it on your detector file"
RateMsg == "The ADC sampling rate is greater than the channel {} sampling rate. Please change the ADC sampling rate."
ZoneMsg == "Nyquist zone is less than one. Exiting."
BandMsg == "Please use another simulation with a larger sampling frequency"

\* a call of get_digital_trace is in progress or has just ended
InCall == pc \notin {"idle", "iter_channels", "run_done"}

RaisedWith(msg) == pc = "raised" /\ ~ret.ok /\ ret.error = "ValueError" /\ ret.msg[1] = msg

\* the detector description of the channel and the prefix of the selected role
DetOfChan == det[Chan.id]
RolePrefix == IF args.trigger_adc THEN "trigger_" ELSE ""

\* the ADC sampling frequency the description configures for the selected role
ConfiguredRate == DetOfChan[RolePrefix \o "adc_sampling_frequency"]

\* the stages before the rate check has been made, and those after the Nyquist zone
UpToRateCheck == {"check_fields", "read_channel", "resolve_config", "clock_offset", "check_rate"}
PastNyquistZone ==
    {"delay_trace", "upsample", "downsample", "digitise", "fir_upsample", "even_length", "returned"}

\* the digital trace as it was before the final trimming
FirApplied == loc.upsampled_trace # Unset
UntrimmedLen == IF FirApplied THEN loc.upsampled_trace.n ELSE loc.resampled_trace.n

Last(seq) == seq[Len(seq)]

(***************************************************************************)
(* C4: whenever get_digital_trace returns, the returned trace has an even   *)
(* number of samples: an odd-length result (resampled, or FIR-upsampled)    *)
(* has exactly its last sample dropped, an even-length one keeps its        *)
(* length.                                                                  *)
(***************************************************************************)
C4_ReturnedLengthEven ==
    pc = "returned" =>
        /\ ret.ok
        /\ ret.digital_trace.n % 2 = 0
        /\ ret.digital_trace.n = UntrimmedLen - (UntrimmedLen % 2)
        /\ UntrimmedLen % 2 = 1 <=> Last(ret.digital_trace.hist) = [op |-> "[:-1]"]

\* an FIR-upsampled trace of odd length (factor 3) returned one sample shorter
C4_Witness ==
    /\ pc = "returned"
    /\ FirApplied
    /\ UntrimmedLen % 2 = 1
    /\ ret.digital_trace.n = UntrimmedLen - 1

(***************************************************************************)
(* C5: get_digital_trace raises, returning no trace, whenever the ADC       *)
(* sampling frequency configured for the selected role is strictly greater  *)
(* than the channel's sampling rate, and never raises that error when it is *)
(* equal or lower; whatever nyquist_zone, upsampling_factor and             *)
(* random_clock_offset are.                                                 *)
(***************************************************************************)
C5_RateCheck ==
    InCall =>
        /\ RaisedWith(RateMsg) =>
              /\ (RolePrefix \o "adc_sampling_frequency") \in DOMAIN DetOfChan
              /\ ExactCmp(ConfiguredRate, 1, Chan.sampling_rate, 1) > 0
              /\ ret.msg[2] = Chan.id
        /\ ((RolePrefix \o "adc_sampling_frequency") \in DOMAIN DetOfChan
              /\ ExactCmp(ConfiguredRate, 1, Chan.sampling_rate, 1) > 0) =>
              \/ pc \in UpToRateCheck
              \/ pc = "raised" /\ ~ret.ok

\* the rate error raised although the Nyquist zone given is invalid too, with
\* upsampling and a random clock offset requested
C5_Witness ==
    /\ RaisedWith(RateMsg)
    /\ args.nyquist_zone = PyInt(0)
    /\ args.upsampling_factor = PyInt(2)
    /\ args.random_clock_offset

(***************************************************************************)
(* C6: if a mandatory field of the selected role (adc_nbits,                *)
(* adc_reference_voltage, adc_sampling_frequency, with 'trigger_' in front  *)
(* when trigger_adc) is absent from the channel's description,              *)
(* get_digital_trace raises an error naming that field and the channel id,  *)
(* before the trace is read and before any other validation; the other      *)
(* role's field does not stand in, and no default is used.                  *)
(***************************************************************************)
RoleFieldNames == {RolePrefix \o mandatory_fields[i] : i \in DOMAIN mandatory_fields}

C6_MissingFieldRaises ==
    (InCall /\ pc # "check_fields") =>
        IF RoleFieldNames \subseteq DOMAIN DetOfChan
        THEN ~RaisedWith(FieldMsg)
        ELSE /\ RaisedWith(FieldMsg)
             /\ ret.msg[2] \in RoleFieldNames \ DOMAIN DetOfChan
             /\ ret.msg[3] = Chan.id
             /\ loc.trace = Unset /\ loc.times = Unset
             /\ loc.adc_n_bits = Unset /\ loc.adc_ref_voltage = Unset
             /\ loc.adc_sampling_frequency = Unset

\* trigger_adc_reference_voltage is missing while adc_reference_voltage is there,
\* and the Nyquist zone given is invalid too
C6_Witness ==
    /\ RaisedWith(FieldMsg)
    /\ args.trigger_adc
    /\ ret.msg[2] = "trigger_adc_reference_voltage"
    /\ "adc_reference_voltage" \in DOMAIN DetOfChan
    /\ args.nyquist_zone = PyInt(0)

(***************************************************************************)
(* C7: with a Nyquist zone n requested, get_digital_trace raises if n < 1   *)
(* or if the upper passband edge n*adc_rate/2 - bandwidth_edge exceeds half *)
(* the input sampling rate; otherwise the trace is filtered with passband   *)
(* ((n-1)*adc_rate/2 + bandwidth_edge, n*adc_rate/2 - bandwidth_edge), and  *)
(* the delay is applied to the filtered trace.  With no zone requested      *)
(* (None) the trace is not filtered and neither error is raised.            *)
(***************************************************************************)
ZoneLowerEdge ==
    FAdd(FDiv(FMulInt(ConfiguredRate, args.nyquist_zone.int - 1), FromInt(2)),
         args.bandwidth_edge)
ZoneUpperEdge ==
    FSub(FDiv(FMulInt(ConfiguredRate, args.nyquist_zone.int), FromInt(2)), args.bandwidth_edge)
HalfInputRate == FDiv(Chan.sampling_rate, FromInt(2))

C7_NyquistZoneFilter ==
    InCall =>
        /\ RaisedWith(ZoneMsg) => (args.nyquist_zone # None /\ args.nyquist_zone.int < 1)
        /\ RaisedWith(BandMsg) =>
              /\ args.nyquist_zone # None
              /\ args.nyquist_zone.int >= 1
              /\ FGt(ZoneUpperEdge, HalfInputRate)
        /\ pc \in PastNyquistZone =>
              IF args.nyquist_zone = None
              THEN loc.filtered_trace = loc.trace
              ELSE /\ args.nyquist_zone.int >= 1
                   /\ ~FGt(ZoneUpperEdge, HalfInputRate)
                   /\ loc.filtered_trace.hist =
                         Append(loc.trace.hist,
                                [op |-> "butterworth_filter_trace",
                                 sampling_frequency |-> Chan.sampling_rate,
                                 passband |-> <<ZoneLowerEdge, ZoneUpperEdge>>])
        /\ pc \in PastNyquistZone \ {"delay_trace"} =>
              /\ Len(loc.delayed_trace.hist) = Len(loc.filtered_trace.hist) + 1
              /\ SubSeq(loc.delayed_trace.hist, 1, Len(loc.filtered_trace.hist)) =
                    loc.filtered_trace.hist
              /\ Last(loc.delayed_trace.hist).op = "delay_trace"

\* zone 2 of an ADC at 2.4 GHz on a channel sampled at 10 GHz, with the default
\* bandwidth_edge: the returned trace was filtered to (1.22, 2.38) GHz
C7_Witness ==
    /\ pc = "returned"
    /\ args.nyquist_zone = PyInt(2)
    /\ FEq(ConfiguredRate, Tenths(24))
    /\ FEq(args.bandwidth_edge, default_bandwidth_edge)
    /\ \E i \in DOMAIN ret.digital_trace.hist :
          /\ ret.digital_trace.hist[i].op = "butterworth_filter_trace"
          /\ ret.digital_trace.hist[i].passband = <<Hundredths(122), Hundredths(238)>>

(***************************************************************************)
(* C8: FIR upsampling is applied iff an upsampling factor >= 2 is given.    *)
(* Then the filter gets the quantized trace, the factor and ntaps = the     *)
(* configured value of the selected role or, when absent or None, 4 x the   *)
(* factor; its output is returned without another quantization, and the     *)
(* returned frequency (which run sets on the channel) is the configured ADC *)
(* frequency times the factor.  With factor None or below 2 the quantized   *)
(* trace is returned and the frequency is the configured one.               *)
(***************************************************************************)
FactorGiven == args.upsampling_factor # None /\ args.upsampling_factor.int >= 2

ExpectedNtaps ==
    IF (RolePrefix \o "adc_ntaps") \in DOMAIN DetOfChan
    THEN IF DetOfChan[RolePrefix \o "adc_ntaps"] # None
         THEN DetOfChan[RolePrefix \o "adc_ntaps"].int
         ELSE 4 * args.upsampling_factor.int
    ELSE 4 * args.upsampling_factor.int

QuantizedHist ==
    Append(loc.resampled_trace.hist,
           [op |-> "perfect_comparator",
            mode |-> IF args.adc_type = "perfect_floor_comparator" THEN "floor" ELSE "ceiling",
            adc_n_bits |-> DetOfChan[RolePrefix \o "adc_nbits"],
            adc_ref_voltage |-> DetOfChan[RolePrefix \o "adc_reference_voltage"],
            output |-> args.output])

FirHist ==
    Append(QuantizedHist,
           [op |-> "upsampling_fir", original_sampling_frequency |-> ConfiguredRate,
            int_factor |-> args.upsampling_factor.int, ntaps |-> ExpectedNtaps])

Trimmed(hist) == Append(hist, [op |-> "[:-1]"])

\* the frequency the channel with the given index in the station is to end with
ExpectedRate(j) ==
    IF FactorGiven
    THEN FMulInt(det[station[j].id]["adc_sampling_frequency"], args.upsampling_factor.int)
    ELSE det[station[j].id]["adc_sampling_frequency"]

C8_FirUpsampling ==
    /\ pc = "returned" =>
          /\ FirApplied <=> FactorGiven
          /\ ret.digital_trace.hist \in
                IF FactorGiven THEN {FirHist, Trimmed(FirHist)}
                ELSE {QuantizedHist, Trimmed(QuantizedHist)}
          /\ args.return_sampling_frequency =>
                ret.adc_sampling_frequency =
                    IF FactorGiven THEN FMulInt(ConfiguredRate, args.upsampling_factor.int)
                    ELSE ConfiguredRate
    /\ pc \in {"iter_channels", "run_done"} =>
          \A j \in 1..cur : station[j].sampling_rate = ExpectedRate(j)

\* run with factor 2 done: a channel whose ADC is configured with 2.4 GHz and
\* ntaps 7 ends at 4.8 GHz with a trace filtered with 7 taps
C8_Witness ==
    /\ pc = "run_done"
    /\ args.upsampling_factor = PyInt(2)
    /\ \E j \in DOMAIN station :
          /\ station[j].sampling_rate = Tenths(48)
          /\ det[station[j].id]["adc_sampling_frequency"] = Tenths(24)
          /\ \E i \in DOMAIN station[j].trace.hist :
                /\ station[j].trace.hist[i].op = "upsampling_fir"
                /\ station[j].trace.hist[i].ntaps = 7

(***************************************************************************)
(* C9 and C10 look at the locals once the resampling to the ADC rate is     *)
(* done.                                                                    *)
(***************************************************************************)
PastDownsample == {"digitise", "fir_upsample", "even_length", "returned"}

\* the ADC rate used for the resampling: adc_sampling_frequency before any
\* FIR upsampling multiplies it
AdcRate == ConfiguredRate

\* k is an integer nearest to x / y (either neighbour at a tie), for doubles
\* x, y > 0, in exact arithmetic:  |2 x - 2 k y| <= y
NearestToRatio(k, x, y) ==
    /\ ExactCmp(x, 2, y, 2 * k + 1) <= 0
    /\ ExactCmp(x, 2, y, 2 * k - 1) >= 0

\* k is an integer nearest to (x / 5) * n in exact arithmetic:
\* |x n - 5 k| <= 2.5
NearestToFifths(k, x, n) ==
    /\ ExactCmp(x, n, Tenths(25), 2 * k + 1) <= 0
    /\ ExactCmp(x, n, Tenths(25), 2 * k - 1) >= 0

\* the float64 product (adc_rate / 5 GHz) * len(delayed_trace)
RateRatioTimesLen == FMulInt(FDiv(AdcRate, FromInt(5)), loc.delayed_trace.n)

(***************************************************************************)
(* C9 as claimed: the number of samples handed to the quantizer is          *)
(* round((adc_rate / 5 GHz) x len(delayed_trace)), with                     *)
(* len(delayed_trace) = original_length - round(input_rate/adc_rate) - 1.   *)
(***************************************************************************)
C9_TargetCountRounded ==
    pc \in PastDownsample =>
        /\ loc.resampled_trace.n = loc.new_n_samples
        /\ NearestToFifths(loc.new_n_samples, AdcRate, loc.delayed_trace.n)
        /\ NearestToRatio(Chan.trace.n - 1 - loc.delayed_trace.n, Chan.sampling_rate, AdcRate)

(***************************************************************************)
(* C9 as amended: the number of samples handed to the quantizer is the      *)
(* float64 product (adc_rate / 5 GHz) x len(delayed_trace) truncated toward *)
(* zero, where delayed_trace is what delay_trace returned when asked for    *)
(* original_length - round(input_rate/adc_rate) - 1 samples.                *)
(***************************************************************************)
C9_TargetCountTruncated ==
    pc \in PastDownsample =>
        /\ loc.resampled_trace.n = loc.new_n_samples
        /\ loc.new_n_samples >= 0
        /\ ~FLt(RateRatioTimesLen, FromInt(loc.new_n_samples))
        /\ FLt(RateRatioTimesLen, FromInt(loc.new_n_samples + 1))
        /\ Last(loc.delayed_trace.hist).op = "delay_trace"
        /\ Last(loc.delayed_trace.hist).delayed_samples = loc.delayed_samples
        /\ NearestToRatio(Chan.trace.n - 1 - loc.delayed_samples, Chan.sampling_rate, AdcRate)

\* 2.4 GHz ADC, 12 delayed samples: the product 5.76 gives 5 samples, not 6
C9_Witness ==
    /\ pc = "digitise"
    /\ FEq(AdcRate, Tenths(24))
    /\ loc.delayed_trace.n = 12
    /\ loc.new_n_samples = 5
    /\ loc.resampled_trace.n = 5

(***************************************************************************)
(* C10: the instants at which the interpolant is evaluated are              *)
(* trace_start_time + i / adc_rate, i = 0 .. target_sample_count - 1: a     *)
(* uniform grid of spacing 1 / adc_rate from the trace start time, for      *)
(* every target_sample_count >= 2.  (In float64 the instant may be computed *)
(* as i / adc_rate or as i * (1 / adc_rate); either is accepted.)           *)
(***************************************************************************)
OnAdcGrid(t, i) ==
    \/ t = FAdd(Chan.trace_start_time, FDiv(FromInt(i), AdcRate))
    \/ t = FAdd(Chan.trace_start_time, FMulInt(FDiv(FromInt(1), AdcRate), i))

C10_InstantsOnAdcGrid ==
    (pc \in PastDownsample /\ loc.new_n_samples >= 2) =>
        /\ Len(loc.resampled_times) = loc.new_n_samples
        /\ \A i \in 0..(loc.new_n_samples - 1) : OnAdcGrid(loc.resampled_times[i + 1], i)

(***************************************************************************)
(* C11: with the delayed trace truncated to                                 *)
(* original_length - round(input_rate/adc_rate) - 1 samples, every instant  *)
(* at which the interpolant is evaluated is no later than the last time     *)
(* point of the intermediate-rate trace the interpolant is built on, for    *)
(* input rates below, equal to and above 5 GHz: the fill value for the      *)
(* trailing edge is never used.                                             *)
(***************************************************************************)
\* the last element of perfectly_upsampled_times, the x of interp1d
LastInterpolantTime ==
    GridAt(loc.perfectly_upsampled_times, loc.perfectly_upsampled_times.n - 1)

C11_NoTrailingExtrapolation ==
    pc \in PastDownsample =>
        /\ loc.delayed_trace.n = loc.delayed_samples
        /\ NearestToRatio(Chan.trace.n - 1 - loc.delayed_samples, Chan.sampling_rate, AdcRate)
        /\ loc.perfectly_upsampled_times.n = loc.perfectly_upsampled_trace.n
        /\ \A i \in DOMAIN loc.resampled_times :
              ~FGt(loc.resampled_times[i], LastInterpolantTime)

====
